---- MODULE Spec2Model ----
(***************************************************************************)
(* E20 machine: the execution core (src/sim.py) and the cache simulator    *)
(* (src/simcache.py), each modelled as the fetch/decode/execute loop of    *)
(* its main(), one action per opcode branch.  Both simulators are started  *)
(* on the same machine-code file; the cache simulator additionally gets a  *)
(* --cache argument.  Python integers are unbounded, so registers, pc and  *)
(* memory words are modelled as unbounded integers and every fold into a   *)
(* fixed width is written out as the code writes it.                       *)
(***************************************************************************)
EXTENDS Integers, Sequences, FiniteSets, TLC

----------------------------------------------------------------------------
(* Bounds of the model *)

\* loop iterations each simulator is followed for
MaxSteps == 6

\* number of lw/sw instructions in a generated memory-access program
AccessLen == 4

\* loop iterations sim.py is followed for on the file BackwardFile
DeepSteps == 132

----------------------------------------------------------------------------
(* Program constants *)

NUM_REGS == 8
MEM_SIZE == 8192
REG_SIZE == 65536

Regs == 0 .. (NUM_REGS - 1)

----------------------------------------------------------------------------
(* Python integer operators, on unbounded two's-complement integers *)

Max2(a, b) == IF a >= b THEN a ELSE b

\* a & b
RECURSIVE BitAnd(_, _)
BitAnd(a, b) ==
    IF a = 0 \/ b = 0 THEN 0
    ELSE IF a = -1 THEN b
    ELSE IF b = -1 THEN a
    ELSE ((a % 2) * (b % 2)) + 2 * BitAnd(a \div 2, b \div 2)

\* a | b
RECURSIVE BitOr(_, _)
BitOr(a, b) ==
    IF a = 0 THEN b
    ELSE IF b = 0 THEN a
    ELSE IF a = -1 \/ b = -1 THEN -1
    ELSE Max2(a % 2, b % 2) + 2 * BitOr(a \div 2, b \div 2)

\* a >> n
Shr(a, n) == a \div (2 ^ n)

\* lst[i] on a list of MEM_SIZE words is defined for -MEM_SIZE <= i < MEM_SIZE;
\* any other index raises IndexError
ListIndexOk(i) == i >= -MEM_SIZE /\ i < MEM_SIZE

\* the position a valid list index denotes (negative indices count from the end)
ListPos(i) == IF i < 0 THEN i + MEM_SIZE ELSE i

\* Memory is [0] * 8192 overwritten by the loader and by sw.  It is kept as
\* the function of its non-zero words; every other word is 0.
MemGet(m, i) == IF ListPos(i) \in DOMAIN m THEN m[ListPos(i)] ELSE 0

MemSet(m, i, v) ==
    IF v = 0 THEN [k \in (DOMAIN m) \ {ListPos(i)} |-> m[k]]
    ELSE [k \in (DOMAIN m) \cup {ListPos(i)} |-> IF k = ListPos(i) THEN v ELSE m[k]]

----------------------------------------------------------------------------
(* Instruction fields, as the simulators extract them *)

Opcode(instruction) == Shr(BitAnd(instruction, 57344), 13)
FieldA(instruction) == Shr(BitAnd(instruction, 7168), 10)
FieldB(instruction) == Shr(BitAnd(instruction, 896), 7)
FieldC(instruction) == Shr(BitAnd(instruction, 112), 4)
Func(instruction) == BitAnd(instruction, 15)
Imm7(instruction) == BitAnd(instruction, 127)
Imm13(instruction) == BitAnd(instruction, 8191)

\* the signed reading of a 7-bit immediate
SignExt7(imm) == IF imm > 63 THEN -128 + imm ELSE imm

----------------------------------------------------------------------------
(* Machine words, as the assembler packs them *)

ThreeReg(srcA, srcB, dst, func) == (srcA * 1024) + (srcB * 128) + (dst * 16) + func
TwoReg(op, reg, dst, imm) == (op * 8192) + (reg * 1024) + (dst * 128) + imm
JumpInstruction(op, imm) == (op * 8192) + imm

----------------------------------------------------------------------------
(* Machine-code files.  A line of the file is kept as what the loader's      *)
(* pattern "^ram\[(\d+)\] = 16'b(\d+);.*$" makes of it: whether it matches,  *)
(* the number its first group of decimal digits denotes, and the digits of   *)
(* its second group.                                                         *)

Line(address, digits) == [ram |-> TRUE, addr |-> address, bits |-> digits]

\* a line the pattern does not match
NoMatch == [ram |-> FALSE, addr |-> 0, bits |-> <<>>]

\* len(format(num, 'b'))
RECURSIVE BitLength(_)
BitLength(num) == IF num < 2 THEN 1 ELSE 1 + BitLength(num \div 2)

\* format(num, '016b'): the binary digits of num, padded with zeros to 16
Format016b(num) ==
    LET width == Max2(16, BitLength(num))
    IN  [k \in 1 .. width |-> (num \div (2 ^ (width - k))) % 2]

\* asm.py: the line printed for one word
print_machine_code(address, num) == Line(address, Format016b(num))

\* the file the assembler prints for a sequence of words
FileOf(words) == [k \in 1 .. Len(words) |-> print_machine_code(k - 1, words[k])]

\* int(instr, 2) is defined when every digit is 0 or 1
IsBinary(digits) == \A k \in 1 .. Len(digits) : digits[k] \in {0, 1}

RECURSIVE BinValue(_)
BinValue(digits) ==
    IF Len(digits) = 0 THEN 0
    ELSE 2 * BinValue(SubSeq(digits, 1, Len(digits) - 1)) + digits[Len(digits)]

\* the ValueError one line raises when expectedaddr lines were stored before
\* it, "" if the line is stored
LineError(line, expectedaddr) ==
    IF ~line.ram THEN "ValueError: Can't parse line"
    ELSE IF ~IsBinary(line.bits) THEN "ValueError: invalid literal for int()"
    ELSE IF line.addr # expectedaddr
    THEN "ValueError: Memory addresses encountered out of sequence"
    ELSE IF line.addr >= MEM_SIZE THEN "ValueError: Program too big for memory"
    ELSE ""

\* load_machine_code(machine_code, mem): the loop stores line after line and
\* expectedaddr counts the lines stored, so line k is met with
\* expectedaddr = k - 1; the loop ends at the first line that raises.
\* m is the memory before the call; the result is the exception and the memory
\* after it.
LoadMachineCode(machine_code, m) ==
    LET Raises(k) == LineError(machine_code[k], k - 1) # ""
        stop == IF \E k \in 1 .. Len(machine_code) : Raises(k)
                THEN CHOOSE k \in 1 .. Len(machine_code) :
                         Raises(k) /\ \A j \in 1 .. (k - 1) : ~Raises(j)
                ELSE Len(machine_code) + 1
        Stored(a) == IF a <= stop - 2 THEN BinValue(machine_code[a + 1].bits)
                     ELSE m[a]
    IN  [fault |-> IF stop <= Len(machine_code)
                   THEN LineError(machine_code[stop], stop - 1) ELSE "",
         mem |-> [a \in {b \in (DOMAIN m) \cup (0 .. (stop - 2)) : Stored(b) # 0}
                     |-> Stored(a)]]

\* the addresses of the words fetched when every word fetched is
\* "jeq $0, $0, -64", starting at 0: each one lies 63 words before the last
BackwardAddrs == {(-63 * j) % MEM_SIZE : j \in 0 .. (DeepSteps - 2)}

\* 8192 lines: "jeq $0, $0, -64" at those addresses, 0 everywhere else
BackwardFile ==
    FileOf([k \in 1 .. MEM_SIZE |->
               IF (k - 1) \in BackwardAddrs THEN TwoReg(6, 0, 0, 64) ELSE 0])

\* cmdline.filename: "a.bin" stands for the file the assembler printed for
\* the words; any other name is a file of OddFiles
Assembled(words) == [name |-> "a.bin", words |-> words]
Named(name) == [name |-> name, words |-> <<>>]

\* "j address" at address: the halt
HaltLine(address) == print_machine_code(address, JumpInstruction(2, address))

\* files no assembler prints: an unmatched line, addresses out of sequence,
\* a first address 1, a digit that is not binary, a word of 17 digits, a word
\* of one digit, a file of 8193 lines, an empty file, and the file of
\* backward jumps
OddFiles ==
    [name \in {"nomatch.bin", "gap.bin", "start1.bin", "digit2.bin",
               "bits17.bin", "bits1.bin", "lines8193.bin", "empty.bin",
               "backward.bin"} |->
        CASE name = "nomatch.bin" -> <<HaltLine(0), NoMatch>>
          [] name = "gap.bin" -> <<HaltLine(0), Line(2, Format016b(0))>>
          [] name = "start1.bin" -> <<Line(1, Format016b(0))>>
          [] name = "digit2.bin" -> <<Line(0, <<2>>)>>
          [] name = "bits17.bin" -> <<Line(0, <<1>> \o Format016b(0)), HaltLine(1)>>
          [] name = "bits1.bin" -> <<Line(0, <<1>>), HaltLine(1)>>
          [] name = "lines8193.bin" -> FileOf([k \in 1 .. (MEM_SIZE + 1) |-> 0])
          [] name = "empty.bin" -> <<>>
          [] name = "backward.bin" -> BackwardFile]

\* "with open(cmdline.filename) as file": the lines of the file
Open(f) == IF f.name = "a.bin" THEN FileOf(f.words) ELSE OddFiles[f.name]

\* "mem = [0] * 8192": no word written yet
ZeroMem == [a \in {} |-> 0]

\* the memory a simulator starts its loop with on the assembled words
Loaded(words) == LoadMachineCode(FileOf(words), ZeroMem).mem

----------------------------------------------------------------------------
(* State *)

VARIABLES
    filename,     \* cmdline.filename: the machine-code file both simulators are given
    stage,        \* sim.py: position in main(), "load" or "run"
    fault,        \* sim.py: the uncaught exception, "" if none
    mem,          \* sim.py: memory
    pc,           \* sim.py: program counter
    registers,    \* sim.py: register file
    condition,    \* sim.py: loop flag, False once the halt is detected
    steps,        \* sim.py: loop iterations executed
    cache,        \* simcache.py: cmdline.cache, [given, parts]
    cstage,       \* simcache.py: position in main(), "args", "load" or "run"
    summary,      \* simcache.py: the lines printed by print_cache_config
    cmem,         \* simcache.py: memory
    cpc,          \* simcache.py: program counter
    cregisters,   \* simcache.py: register file
    ccondition,   \* simcache.py: loop flag
    cfault,       \* simcache.py: name of the uncaught exception, "" if none
    csteps,       \* simcache.py: loop iterations executed
    L1cache,      \* simcache.py: one tag list per L1 row
    L2cache,      \* simcache.py: one tag list per L2 row
    log           \* simcache.py: the lines printed by print_log_entry

simVars == <<stage, fault, mem, pc, registers, condition, steps>>
cacheVars == <<cache, cstage, summary, cmem, cpc, cregisters, ccondition, cfault,
               csteps, L1cache, L2cache, log>>
vars == <<filename, stage, fault, mem, pc, registers, condition, steps, cache,
          cstage, summary, cmem, cpc, cregisters, ccondition, cfault, csteps,
          L1cache, L2cache, log>>

----------------------------------------------------------------------------
(* sim.py: arithmetic of the execution core *)

\* add that stores the raw sum
SimAddResultUnfolded(srcA, srcB) == srcA + srcB

\* add: result folded into 16 bits
SimAddResult(srcA, srcB) ==
    LET result == srcA + srcB
    IN  IF result < 0 THEN result + 65536
        ELSE IF result > 65535 THEN BitAnd(result, 65535)
        ELSE result

\* sub: only the negative side is folded
SimSubResult(srcA, srcB) ==
    LET result == srcA - srcB
    IN  IF result < 0 THEN result + 65536 ELSE result

\* addi / movi
SimAddiResult(src, imm7) ==
    LET result == src + SignExt7(imm7)
    IN  IF result > 65535 THEN BitAnd(result, 65535)
        ELSE IF result < 0 THEN result + 65536
        ELSE result

\* an effective address whose negative sums are biased but not masked
EffAddrUnmasked(base, imm7) ==
    LET result == SignExt7(imm7) + base
    IN  IF result > 8191 THEN BitAnd(result, 8191)
        ELSE IF result < 0 THEN result + 65536
        ELSE result

\* lw / sw effective address (the same text in both simulators)
EffAddr(base, imm7) ==
    LET result == SignExt7(imm7) + base
    IN  IF result > 8191 THEN BitAnd(result, 8191)
        ELSE IF result < 0 THEN BitAnd(result + 65536, 8191)
        ELSE result

\* slti: immediate and source as unsigned 16-bit values
SltiImm(imm7) == IF imm7 > 63 THEN (-128 + imm7) + 65536 ELSE imm7
SltiSrc(src) == IF src < 0 THEN 65536 + src ELSE src
SltiResult(src, imm7) == IF SltiSrc(src) < SltiImm(imm7) THEN 1 ELSE 0

\* a register write that decodes func by its three low bits
Op0WriteThreeBit(regs, dst, fourbit, srcA, srcB, addResult, subResult) ==
    LET f == fourbit % 8
    IN  IF f = 0 THEN [regs EXCEPT ![dst] = addResult]
        ELSE IF f = 1 THEN [regs EXCEPT ![dst] = subResult]
        ELSE IF f = 2 THEN [regs EXCEPT ![dst] = BitOr(srcA, srcB)]
        ELSE IF f = 3 THEN [regs EXCEPT ![dst] = BitAnd(srcA, srcB)]
        ELSE IF f = 4 THEN [regs EXCEPT ![dst] = IF srcA < srcB THEN 1 ELSE 0]
        ELSE regs

\* the opcode-0 register write for func other than 8, dst other than 0
Op0Write(regs, dst, fourbit, srcA, srcB, addResult, subResult) ==
    IF fourbit = 0 THEN [regs EXCEPT ![dst] = addResult]
    ELSE IF fourbit = 1 THEN [regs EXCEPT ![dst] = subResult]
    ELSE IF fourbit = 2 THEN [regs EXCEPT ![dst] = BitOr(srcA, srcB)]
    ELSE IF fourbit = 3 THEN [regs EXCEPT ![dst] = BitAnd(srcA, srcB)]
    ELSE IF fourbit = 4 THEN [regs EXCEPT ![dst] = IF srcA < srcB THEN 1 ELSE 0]
    ELSE regs

----------------------------------------------------------------------------
(* sim.py: main() up to its loop *)

\* "mem = [0] * 8192; load_machine_code(file, mem); pc = 0; condition = True;
\* registers = [0, ...]"
SimLoad ==
    /\ stage = "load"
    /\ fault = ""
    /\ LET loaded == LoadMachineCode(Open(filename), ZeroMem)
       IN  /\ mem' = loaded.mem
           /\ fault' = loaded.fault
           /\ stage' = IF loaded.fault = "" THEN "run" ELSE "load"
    /\ pc' = 0
    /\ condition' = TRUE
    /\ registers' = [r \in Regs |-> 0]
    /\ UNCHANGED <<filename, steps>>
    /\ UNCHANGED cacheVars

----------------------------------------------------------------------------
(* sim.py: the loop of main() *)

\* "if pc > 8191: pc = pc & 8191": the pc the iteration works with
SimPc == IF pc > 8191 THEN BitAnd(pc, 8191) ELSE pc

SimInstruction == MemGet(mem, SimPc)

\* the iterations sim.py is followed for
SimBound == IF filename = Named("backward.bin") THEN DeepSteps ELSE MaxSteps

\* "while condition", reached after the load and left by an exception
SimLoop == stage = "run" /\ fault = "" /\ condition /\ steps < SimBound

SimRunning == SimLoop /\ ListIndexOk(SimPc)

\* mem[pc] with pc below -8192
SimFetchError ==
    /\ SimLoop
    /\ ~ListIndexOk(SimPc)
    /\ fault' = "IndexError"
    /\ steps' = steps + 1
    /\ UNCHANGED <<filename, stage, mem, pc, registers, condition>>
    /\ UNCHANGED cacheVars

SimOp0 ==
    /\ SimRunning
    /\ Opcode(SimInstruction) = 0
    /\ LET srcA == registers[FieldA(SimInstruction)]
           srcB == registers[FieldB(SimInstruction)]
           dst == FieldC(SimInstruction)
           fourbit == Func(SimInstruction)
       IN  IF fourbit = 8
           THEN pc' = srcA /\ UNCHANGED registers
           ELSE IF dst = 0
           THEN pc' = SimPc + 1 /\ UNCHANGED registers
           ELSE /\ registers' = Op0Write(registers, dst, fourbit, srcA, srcB,
                                         SimAddResult(srcA, srcB),
                                         SimSubResult(srcA, srcB))
                /\ pc' = SimPc + 1
    /\ steps' = steps + 1
    /\ UNCHANGED <<mem, condition>>
    /\ UNCHANGED <<filename, stage, fault>>
    /\ UNCHANGED cacheVars

\* addi / movi that writes whatever the destination field is
SimAddiUnguarded ==
    /\ SimRunning
    /\ Opcode(SimInstruction) = 1
    /\ registers' =
           [registers EXCEPT ![FieldB(SimInstruction)] =
               SimAddiResult(registers[FieldA(SimInstruction)], Imm7(SimInstruction))]
    /\ pc' = SimPc + 1
    /\ steps' = steps + 1
    /\ UNCHANGED <<mem, condition>>
    /\ UNCHANGED <<filename, stage, fault>>
    /\ UNCHANGED cacheVars

SimAddi ==
    /\ SimRunning
    /\ Opcode(SimInstruction) = 1
    /\ LET src == FieldA(SimInstruction)
           dst == FieldB(SimInstruction)
           imm == Imm7(SimInstruction)
       IN  IF dst = 0
           THEN UNCHANGED registers
           ELSE registers' =
                    [registers EXCEPT ![dst] = SimAddiResult(registers[src], imm)]
    /\ pc' = SimPc + 1
    /\ steps' = steps + 1
    /\ UNCHANGED <<mem, condition>>
    /\ UNCHANGED <<filename, stage, fault>>
    /\ UNCHANGED cacheVars

SimJ ==
    /\ SimRunning
    /\ Opcode(SimInstruction) = 2
    /\ LET imm == Imm13(SimInstruction)
       IN  IF imm = SimPc
           THEN condition' = FALSE /\ pc' = SimPc
           ELSE condition' = TRUE /\ pc' = imm
    /\ steps' = steps + 1
    /\ UNCHANGED <<mem, registers>>
    /\ UNCHANGED <<filename, stage, fault>>
    /\ UNCHANGED cacheVars

\* a jal that links pc + 1 without reducing it to 13 bits
SimJalUnmasked ==
    /\ SimRunning
    /\ Opcode(SimInstruction) = 3
    /\ registers' = [registers EXCEPT ![7] = SimPc + 1]
    /\ pc' = Imm13(SimInstruction)
    /\ steps' = steps + 1
    /\ UNCHANGED <<mem, condition>>
    /\ UNCHANGED <<filename, stage, fault>>
    /\ UNCHANGED cacheVars

SimJal ==
    /\ SimRunning
    /\ Opcode(SimInstruction) = 3
    /\ registers' = [registers EXCEPT ![7] = BitAnd(SimPc + 1, 8191)]
    /\ pc' = Imm13(SimInstruction)
    /\ steps' = steps + 1
    /\ UNCHANGED <<mem, condition>>
    /\ UNCHANGED <<filename, stage, fault>>
    /\ UNCHANGED cacheVars

SimLw ==
    /\ SimRunning
    /\ Opcode(SimInstruction) = 4
    /\ LET addr == FieldA(SimInstruction)
           dst == FieldB(SimInstruction)
           imm == Imm7(SimInstruction)
           result == EffAddr(registers[addr], imm)
       IN  IF dst = 0
           THEN UNCHANGED registers
           ELSE registers' = [registers EXCEPT ![dst] = MemGet(mem, result)]
    /\ pc' = SimPc + 1
    /\ steps' = steps + 1
    /\ UNCHANGED <<mem, condition>>
    /\ UNCHANGED <<filename, stage, fault>>
    /\ UNCHANGED cacheVars

\* a sw that, like lw, does nothing but advance pc when its register field
\* is 0
SimSwGuarded ==
    /\ SimRunning
    /\ Opcode(SimInstruction) = 5
    /\ LET addr == FieldA(SimInstruction)
           src == FieldB(SimInstruction)
           imm == Imm7(SimInstruction)
           result == EffAddr(registers[addr], imm)
       IN  mem' = IF src = 0 THEN mem ELSE MemSet(mem, result, registers[src])
    /\ pc' = SimPc + 1
    /\ steps' = steps + 1
    /\ UNCHANGED <<registers, condition>>
    /\ UNCHANGED <<filename, stage, fault>>
    /\ UNCHANGED cacheVars

SimSw ==
    /\ SimRunning
    /\ Opcode(SimInstruction) = 5
    /\ LET addr == FieldA(SimInstruction)
           src == FieldB(SimInstruction)
           imm == Imm7(SimInstruction)
           result == EffAddr(registers[addr], imm)
       IN  mem' = MemSet(mem, result, registers[src])
    /\ pc' = SimPc + 1
    /\ steps' = steps + 1
    /\ UNCHANGED <<registers, condition>>
    /\ UNCHANGED <<filename, stage, fault>>
    /\ UNCHANGED cacheVars

SimJeq ==
    /\ SimRunning
    /\ Opcode(SimInstruction) = 6
    /\ LET regA == FieldA(SimInstruction)
           regB == FieldB(SimInstruction)
           rel_imm == SignExt7(Imm7(SimInstruction))
       IN  IF registers[regA] = registers[regB]
           THEN pc' = SimPc + 1 + rel_imm
           ELSE pc' = SimPc + 1
    /\ steps' = steps + 1
    /\ UNCHANGED <<mem, registers, condition>>
    /\ UNCHANGED <<filename, stage, fault>>
    /\ UNCHANGED cacheVars

SimSlti ==
    /\ SimRunning
    /\ Opcode(SimInstruction) = 7
    /\ LET src == FieldA(SimInstruction)
           dst == FieldB(SimInstruction)
           imm == Imm7(SimInstruction)
       IN  IF dst = 0
           THEN UNCHANGED registers
           ELSE registers' =
                    [registers EXCEPT ![dst] = SltiResult(registers[src], imm)]
    /\ pc' = SimPc + 1
    /\ steps' = steps + 1
    /\ UNCHANGED <<mem, condition>>
    /\ UNCHANGED <<filename, stage, fault>>
    /\ UNCHANGED cacheVars

----------------------------------------------------------------------------
(* simcache.py: helpers *)

\* readjust(result) rebinds its own parameter and returns nothing: this is the
\* value its local name ends with, which no caller ever receives
Readjust(result) ==
    IF result < 0 THEN result + 65536
    ELSE IF result > 65535 THEN BitAnd(result, 65535)
    ELSE result

\* "result = ...; readjust(result); registers[dst] = result"
AfterReadjust(result) ==
    LET discarded == Readjust(result)
    IN  result

CacheAddResult(srcA, srcB) == AfterReadjust(srcA + srcB)
CacheSubResult(srcA, srcB) == AfterReadjust(srcA - srcB)
CacheAddiResult(src, imm7) == AfterReadjust(src + SignExt7(imm7))

\* calculate(result, blocksize, num_rows)
Calculate(result, blocksize, num_rows) ==
    LET block == result \div blocksize
    IN  [row |-> block % num_rows, tag |-> block \div num_rows]

\* tag in lst
InList(lst, tag) == \E i \in 1 .. Len(lst) : lst[i] = tag

\* lst.remove(tag): drops the first occurrence
ListRemove(lst, tag) ==
    LET first == CHOOSE i \in 1 .. Len(lst) :
                     lst[i] = tag /\ \A j \in 1 .. (i - 1) : lst[j] # tag
    IN  [k \in 1 .. (Len(lst) - 1) |-> IF k < first THEN lst[k] ELSE lst[k + 1]]

\* an evict that never removes
EvictNothing(cacheRows, row, assoc, tag) ==
    [cacheRows EXCEPT ![row] = Append(cacheRows[row], tag)]

\* an evict that removes the most recently used tag
EvictLast(cacheRows, row, assoc, tag) ==
    LET kept == IF Len(cacheRows[row]) = assoc
                THEN SubSeq(cacheRows[row], 1, Len(cacheRows[row]) - 1)
                ELSE cacheRows[row]
    IN  [cacheRows EXCEPT ![row] = Append(kept, tag)]

\* evict(cache, row, assoc, tag)
Evict(cacheRows, row, assoc, tag) ==
    LET kept == IF Len(cacheRows[row]) = assoc
                THEN ListRemove(cacheRows[row], cacheRows[row][1])
                ELSE cacheRows[row]
    IN  [cacheRows EXCEPT ![row] = Append(kept, tag)]

\* a hit that appends the tag without removing it first
PromoteAppend(cacheRows, row, tag) ==
    [cacheRows EXCEPT ![row] = Append(cacheRows[row], tag)]

\* a hit that leaves the row as it is
PromoteNothing(cacheRows, row, tag) == cacheRows

\* the hit branch: remove the tag and append it again
Promote(cacheRows, row, tag) ==
    [cacheRows EXCEPT ![row] = Append(ListRemove(cacheRows[row], tag), tag)]

\* "if tag not in cache[row]: evict(...) else: remove, append"
Lookup(cacheRows, row, assoc, tag) ==
    IF ~InList(cacheRows[row], tag)
    THEN Evict(cacheRows, row, assoc, tag)
    ELSE Promote(cacheRows, row, tag)

LookupStatus(cacheRows, row, tag) ==
    IF ~InList(cacheRows[row], tag) THEN "MISS" ELSE "HIT"

\* print_log_entry(cache_name, status, pc, addr, row)
LogEntry(cache_name, status, p, addr, row) ==
    [cache_name |-> cache_name, status |-> status, pc |-> p, addr |-> addr,
     row |-> row]

\* the --cache argument split at "," and converted with int()
parts == cache.parts
L1size == parts[1]
L1assoc == parts[2]
L1blocksize == parts[3]
L2size == parts[4]
L2assoc == parts[5]
L2blocksize == parts[6]

\* num_rows (one cache) or L1num_rows (two caches), and L2num_rows
L1num_rows == L1size \div (L1blocksize * L1assoc)
L2num_rows == L2size \div (L2blocksize * L2assoc)

\* "for i in range(num_rows): cache.append([])"
EmptyCache(num_rows) == [r \in 0 .. (num_rows - 1) |-> <<>>]

\* print_cache_config(cache_name, size, assoc, blocksize, num_rows)
print_cache_config(cache_name, size, assoc, blocksize, num_rows) ==
    [cache_name |-> cache_name, size |-> size, assoc |-> assoc,
     blocksize |-> blocksize, num_rows |-> num_rows]

Parsed(f, l1, l2, lines) == [fault |-> f, L1 |-> l1, L2 |-> l2, summary |-> lines]

\* a configuration block that takes any other field count for no cache
ParseCacheLenient(arg) ==
    IF arg.given /\ Len(arg.parts) = 3 /\ arg.parts[3] * arg.parts[2] # 0
    THEN LET num_rows == arg.parts[1] \div (arg.parts[3] * arg.parts[2])
         IN  Parsed("", EmptyCache(num_rows), <<>>,
                    <<print_cache_config("L1", arg.parts[1], arg.parts[2],
                                         arg.parts[3], num_rows)>>)
    ELSE Parsed("", <<>>, <<>>, <<>>)

\* "if cmdline.cache is not None: ...": the exception raised, the cache tables
\* created and the summary lines printed for the argument arg
ParseCache(arg) ==
    LET p == arg.parts
    IN  IF ~arg.given THEN Parsed("", <<>>, <<>>, <<>>)
        ELSE IF Len(p) = 3
        THEN IF p[3] * p[2] = 0 THEN Parsed("ZeroDivisionError", <<>>, <<>>, <<>>)
             ELSE LET num_rows == p[1] \div (p[3] * p[2])
                  IN  Parsed("", EmptyCache(num_rows), <<>>,
                             <<print_cache_config("L1", p[1], p[2], p[3], num_rows)>>)
        ELSE IF Len(p) = 6
        THEN IF p[3] * p[2] = 0 \/ p[6] * p[5] = 0
             THEN Parsed("ZeroDivisionError", <<>>, <<>>, <<>>)
             ELSE LET rows1 == p[1] \div (p[3] * p[2])
                      rows2 == p[4] \div (p[6] * p[5])
                  IN  Parsed("", EmptyCache(rows1), EmptyCache(rows2),
                             <<print_cache_config("L1", p[1], p[2], p[3], rows1),
                               print_cache_config("L2", p[4], p[5], p[6], rows2)>>)
        ELSE Parsed("Exception: Invalid cache config", <<>>, <<>>, <<>>)

----------------------------------------------------------------------------
(* simcache.py: what a lw (dst other than 0) or a sw does after its memory   *)
(* access: the new tag lists, the lines printed, the exception raised        *)

Outcome(f, l1, l2, lines) ==
    [fault |-> f, L1 |-> l1, L2 |-> l2, lines |-> lines]

\* lw, "if len(parts) == 3"
LoadOne(p, result) ==
    LET c == Calculate(result, L1blocksize, L1num_rows)
    IN  Outcome("", Lookup(L1cache, c.row, L1assoc, c.tag), L2cache,
                <<LogEntry("L1", LookupStatus(L1cache, c.row, c.tag),
                           p, result, c.row)>>)

\* a two-level load that consults L2 whatever L1 reports
LoadTwoAlways(p, result) ==
    LET c1 == Calculate(result, L1blocksize, L1num_rows)
        c2 == Calculate(result, L2blocksize, L2num_rows)
    IN  Outcome("", Lookup(L1cache, c1.row, L1assoc, c1.tag),
                Lookup(L2cache, c2.row, L2assoc, c2.tag),
                <<LogEntry("L1", LookupStatus(L1cache, c1.row, c1.tag),
                           p, result, c1.row),
                  LogEntry("L2", LookupStatus(L2cache, c2.row, c2.tag),
                           p, result, c2.row)>>)

\* lw, "elif len(parts) == 6"
LoadTwo(p, result) ==
    LET c1 == Calculate(result, L1blocksize, L1num_rows)
        c2 == Calculate(result, L2blocksize, L2num_rows)
        L1status == LookupStatus(L1cache, c1.row, c1.tag)
        line1 == LogEntry("L1", L1status, p, result, c1.row)
    IN  IF L1status = "MISS"
        THEN Outcome("", Lookup(L1cache, c1.row, L1assoc, c1.tag),
                     Lookup(L2cache, c2.row, L2assoc, c2.tag),
                     <<line1,
                       LogEntry("L2", LookupStatus(L2cache, c2.row, c2.tag),
                                p, result, c2.row)>>)
        ELSE Outcome("", Lookup(L1cache, c1.row, L1assoc, c1.tag), L2cache,
                     <<line1>>)

\* a one-level store that inserts on a miss but leaves a resident tag where
\* it is
StoreOneNoPromote(p, result) ==
    LET c == Calculate(result, L1blocksize, L1num_rows)
    IN  Outcome("", IF InList(L1cache[c.row], c.tag) THEN L1cache
                    ELSE Evict(L1cache, c.row, L1assoc, c.tag),
                L2cache, <<LogEntry("L1", "SW", p, result, c.row)>>)

\* sw, "if len(parts) == 3"
StoreOne(p, result) ==
    LET c == Calculate(result, L1blocksize, L1num_rows)
    IN  Outcome("", Lookup(L1cache, c.row, L1assoc, c.tag), L2cache,
                <<LogEntry("L1", "SW", p, result, c.row)>>)

\* sw, "elif len(parts) == 6"
StoreTwo(p, result) ==
    LET c1 == Calculate(result, L1blocksize, L1num_rows)
        c2 == Calculate(result, L2blocksize, L2num_rows)
    IN  Outcome("", Lookup(L1cache, c1.row, L1assoc, c1.tag),
                Lookup(L2cache, c2.row, L2assoc, c2.tag),
                <<LogEntry("L1", "SW", p, result, c1.row),
                  LogEntry("L2", "SW", p, result, c2.row)>>)

\* "len(parts)" when --cache was not given: parts was never assigned.
\* "block % num_rows" with no rows: division by zero.
Observe(kind, p, result) ==
    IF ~cache.given
    THEN Outcome("UnboundLocalError", L1cache, L2cache, <<>>)
    ELSE IF Len(parts) = 3
    THEN IF L1num_rows = 0
         THEN Outcome("ZeroDivisionError", L1cache, L2cache, <<>>)
         ELSE IF kind = "LOAD" THEN LoadOne(p, result) ELSE StoreOne(p, result)
    ELSE IF Len(parts) = 6
    THEN IF L1num_rows = 0 \/ L2num_rows = 0
         THEN Outcome("ZeroDivisionError", L1cache, L2cache, <<>>)
         ELSE IF kind = "LOAD" THEN LoadTwo(p, result) ELSE StoreTwo(p, result)
    ELSE Outcome("", L1cache, L2cache, <<>>)

----------------------------------------------------------------------------
(* simcache.py: main() up to its loop *)

\* the --cache argument is split and the cache tables are created
CacheParseArgs ==
    /\ cstage = "args"
    /\ cfault = ""
    /\ LET parsed == ParseCache(cache)
       IN  /\ cfault' = parsed.fault
           /\ L1cache' = parsed.L1
           /\ L2cache' = parsed.L2
           /\ summary' = parsed.summary
           /\ cstage' = IF parsed.fault = "" THEN "load" ELSE "args"
    /\ UNCHANGED <<filename, cache, cmem, cpc, cregisters, ccondition, csteps, log>>
    /\ UNCHANGED simVars

\* "mem = [0] * 8192; load_machine_code(file, mem); pc = 0; condition = True;
\* registers = [0, ...]"
CacheLoad ==
    /\ cstage = "load"
    /\ cfault = ""
    /\ LET loaded == LoadMachineCode(Open(filename), ZeroMem)
       IN  /\ cmem' = loaded.mem
           /\ cfault' = loaded.fault
           /\ cstage' = IF loaded.fault = "" THEN "run" ELSE "load"
    /\ cpc' = 0
    /\ ccondition' = TRUE
    /\ cregisters' = [r \in Regs |-> 0]
    /\ UNCHANGED <<filename, cache, summary, csteps, L1cache, L2cache, log>>
    /\ UNCHANGED simVars

----------------------------------------------------------------------------
(* simcache.py: the loop of main() *)

\* "if pc > 8191: instruction = mem[pc & 8191] else: instruction = mem[pc]";
\* pc itself keeps its value
CacheFetchIndex == IF cpc > 8191 THEN BitAnd(cpc, 8191) ELSE cpc

CacheInstruction == MemGet(cmem, CacheFetchIndex)

CacheLoop == cstage = "run" /\ cfault = "" /\ ccondition /\ csteps < MaxSteps

CacheRunning == CacheLoop /\ ListIndexOk(CacheFetchIndex)

\* mem[pc] with pc below -8192
CacheFetchError ==
    /\ CacheLoop
    /\ ~ListIndexOk(CacheFetchIndex)
    /\ cfault' = "IndexError"
    /\ csteps' = csteps + 1
    /\ UNCHANGED <<cache, cmem, cpc, cregisters, ccondition, L1cache, L2cache, log>>
    /\ UNCHANGED <<filename, cstage, summary>>
    /\ UNCHANGED simVars

CacheOp0 ==
    /\ CacheRunning
    /\ Opcode(CacheInstruction) = 0
    /\ LET srcA == cregisters[FieldA(CacheInstruction)]
           srcB == cregisters[FieldB(CacheInstruction)]
           dst == FieldC(CacheInstruction)
           fourbit == Func(CacheInstruction)
       IN  IF fourbit = 8
           THEN cpc' = srcA /\ UNCHANGED cregisters
           ELSE IF dst = 0
           THEN cpc' = cpc + 1 /\ UNCHANGED cregisters
           ELSE /\ cregisters' = Op0Write(cregisters, dst, fourbit, srcA, srcB,
                                          CacheAddResult(srcA, srcB),
                                          CacheSubResult(srcA, srcB))
                /\ cpc' = cpc + 1
    /\ csteps' = csteps + 1
    /\ UNCHANGED <<cache, cmem, ccondition, cfault, L1cache, L2cache, log>>
    /\ UNCHANGED <<filename, cstage, summary>>
    /\ UNCHANGED simVars

CacheAddi ==
    /\ CacheRunning
    /\ Opcode(CacheInstruction) = 1
    /\ LET src == FieldA(CacheInstruction)
           dst == FieldB(CacheInstruction)
           imm == Imm7(CacheInstruction)
       IN  IF dst = 0
           THEN UNCHANGED cregisters
           ELSE cregisters' =
                    [cregisters EXCEPT ![dst] = CacheAddiResult(cregisters[src], imm)]
    /\ cpc' = cpc + 1
    /\ csteps' = csteps + 1
    /\ UNCHANGED <<cache, cmem, ccondition, cfault, L1cache, L2cache, log>>
    /\ UNCHANGED <<filename, cstage, summary>>
    /\ UNCHANGED simVars

CacheJ ==
    /\ CacheRunning
    /\ Opcode(CacheInstruction) = 2
    /\ LET imm == Imm13(CacheInstruction)
       IN  IF imm = cpc
           THEN ccondition' = FALSE /\ cpc' = cpc
           ELSE ccondition' = TRUE /\ cpc' = imm
    /\ csteps' = csteps + 1
    /\ UNCHANGED <<cache, cmem, cregisters, cfault, L1cache, L2cache, log>>
    /\ UNCHANGED <<filename, cstage, summary>>
    /\ UNCHANGED simVars

CacheJal ==
    /\ CacheRunning
    /\ Opcode(CacheInstruction) = 3
    /\ cregisters' = [cregisters EXCEPT ![7] = BitAnd(cpc + 1, 8191)]
    /\ cpc' = Imm13(CacheInstruction)
    /\ csteps' = csteps + 1
    /\ UNCHANGED <<cache, cmem, ccondition, cfault, L1cache, L2cache, log>>
    /\ UNCHANGED <<filename, cstage, summary>>
    /\ UNCHANGED simVars

\* a lw that loads and reports whatever the destination field is
CacheLwUnguarded ==
    /\ CacheRunning
    /\ Opcode(CacheInstruction) = 4
    /\ LET addr == FieldA(CacheInstruction)
           dst == FieldB(CacheInstruction)
           imm == Imm7(CacheInstruction)
           result == EffAddr(cregisters[addr], imm)
           o == Observe("LOAD", cpc, result)
       IN  /\ cregisters' = [cregisters EXCEPT ![dst] = MemGet(cmem, result)]
           /\ cfault' = o.fault
           /\ L1cache' = o.L1
           /\ L2cache' = o.L2
           /\ log' = log \o o.lines
           /\ cpc' = IF o.fault = "" THEN cpc + 1 ELSE cpc
    /\ csteps' = csteps + 1
    /\ UNCHANGED <<cache, cmem, ccondition>>
    /\ UNCHANGED <<filename, cstage, summary>>
    /\ UNCHANGED simVars

CacheLw ==
    /\ CacheRunning
    /\ Opcode(CacheInstruction) = 4
    /\ LET addr == FieldA(CacheInstruction)
           dst == FieldB(CacheInstruction)
           imm == Imm7(CacheInstruction)
           result == EffAddr(cregisters[addr], imm)
           o == Observe("LOAD", cpc, result)
       IN  IF dst = 0
           THEN /\ cpc' = cpc + 1
                /\ UNCHANGED <<cregisters, cfault, L1cache, L2cache, log>>
           ELSE /\ cregisters' = [cregisters EXCEPT ![dst] = MemGet(cmem, result)]
                /\ cfault' = o.fault
                /\ L1cache' = o.L1
                /\ L2cache' = o.L2
                /\ log' = log \o o.lines
                /\ cpc' = IF o.fault = "" THEN cpc + 1 ELSE cpc
    /\ csteps' = csteps + 1
    /\ UNCHANGED <<cache, cmem, ccondition>>
    /\ UNCHANGED <<filename, cstage, summary>>
    /\ UNCHANGED simVars

CacheSw ==
    /\ CacheRunning
    /\ Opcode(CacheInstruction) = 5
    /\ LET addr == FieldA(CacheInstruction)
           src == FieldB(CacheInstruction)
           imm == Imm7(CacheInstruction)
           result == EffAddr(cregisters[addr], imm)
           o == Observe("STORE", cpc, result)
       IN  /\ cmem' = MemSet(cmem, result, cregisters[src])
           /\ cfault' = o.fault
           /\ L1cache' = o.L1
           /\ L2cache' = o.L2
           /\ log' = log \o o.lines
           /\ cpc' = IF o.fault = "" THEN cpc + 1 ELSE cpc
    /\ csteps' = csteps + 1
    /\ UNCHANGED <<cache, cregisters, ccondition>>
    /\ UNCHANGED <<filename, cstage, summary>>
    /\ UNCHANGED simVars

CacheJeq ==
    /\ CacheRunning
    /\ Opcode(CacheInstruction) = 6
    /\ LET regA == FieldA(CacheInstruction)
           regB == FieldB(CacheInstruction)
           rel_imm == SignExt7(Imm7(CacheInstruction))
       IN  IF cregisters[regA] = cregisters[regB]
           THEN cpc' = cpc + 1 + rel_imm
           ELSE cpc' = cpc + 1
    /\ csteps' = csteps + 1
    /\ UNCHANGED <<cache, cmem, cregisters, ccondition, cfault, L1cache, L2cache, log>>
    /\ UNCHANGED <<filename, cstage, summary>>
    /\ UNCHANGED simVars

CacheSlti ==
    /\ CacheRunning
    /\ Opcode(CacheInstruction) = 7
    /\ LET src == FieldA(CacheInstruction)
           dst == FieldB(CacheInstruction)
           imm == Imm7(CacheInstruction)
       IN  IF dst = 0
           THEN UNCHANGED cregisters
           ELSE cregisters' =
                    [cregisters EXCEPT ![dst] = SltiResult(cregisters[src], imm)]
    /\ cpc' = cpc + 1
    /\ csteps' = csteps + 1
    /\ UNCHANGED <<cache, cmem, ccondition, cfault, L1cache, L2cache, log>>
    /\ UNCHANGED <<filename, cstage, summary>>
    /\ UNCHANGED simVars

----------------------------------------------------------------------------
(* The machine-code files the simulators are started on *)

\* register values loaded from data words
Samples == {0, 1, 8191, 65535}

\* the instruction under study in a data-driven program: registers 1 and 2
\* hold the two data words, register 3 is the destination
AluOps ==
    {ThreeReg(1, 2, 3, f) : f \in {0, 1, 2, 3, 4, 5, 8}}
    \cup {ThreeReg(1, 2, 0, 0)}
    \cup {TwoReg(1, 1, 3, i) : i \in {1, 63, 64, 127}}
    \cup {TwoReg(1, 1, 0, 1)}
    \cup {TwoReg(4, 1, 3, i) : i \in {0, 63, 64, 127}}
    \cup {TwoReg(4, 1, 0, 0)}
    \cup {TwoReg(5, 1, 2, i) : i \in {0, 64, 127}}
    \cup {TwoReg(6, 1, 2, i) : i \in {1, 64, 126}}
    \cup {TwoReg(7, 1, 3, i) : i \in {0, 1, 63, 64, 127}}
    \cup {TwoReg(7, 1, 0, 1)}
    \cup {JumpInstruction(3, 2), JumpInstruction(3, 3)}
    \cup {JumpInstruction(2, 8191)}

\* lw $1, 4($0); lw $2, 5($0); op; jr $3; .fill a; .fill b
AluPrograms ==
    {<<TwoReg(4, 0, 1, 4), TwoReg(4, 0, 2, 5), op, ThreeReg(3, 0, 0, 8), a, b>> :
        op \in AluOps, a \in Samples, b \in Samples}

\* short programs around the program counter: movi $1, 5; addi $1, $1, -1;
\* j 0; j 1; j 8191; jeq $0, $0, -2; jal 8191; jr $1; sw $1, -1($0); nop
GenInstr ==
    {TwoReg(1, 0, 1, 5), TwoReg(1, 1, 1, 127),
     JumpInstruction(2, 0), JumpInstruction(2, 1), JumpInstruction(2, 8191),
     TwoReg(6, 0, 0, 126), JumpInstruction(3, 8191), ThreeReg(1, 0, 0, 8),
     TwoReg(5, 0, 1, 127), 0}

GenPrograms == {<<i>> : i \in GenInstr} \cup {<<i, j>> : i \in GenInstr, j \in GenInstr}

\* memory accesses: lw $2, a($0) for a in 0, 2, 4 and sw $0, 3($0)
AccessInstr == {TwoReg(4, 0, 2, a) : a \in {0, 2, 4}} \cup {TwoReg(5, 0, 0, 3)}

\* AccessLen accesses, then halt
AccessPrograms ==
    {Append(accesses, JumpInstruction(2, AccessLen)) :
        accesses \in [1 .. AccessLen -> AccessInstr]}

\* lw $2, 0($0); lw $2, 2($0) fill a two-way row, then AccessLen - 1 more
\* loads of the words 0, 2 and 4, then halt
WarmPrograms ==
    {<<TwoReg(4, 0, 2, 0), TwoReg(4, 0, 2, 2)>> \o loads
        \o <<JumpInstruction(2, AccessLen + 1)>> :
        loads \in [1 .. (AccessLen - 1) -> {TwoReg(4, 0, 2, a) : a \in {0, 2, 4}}]}

\* a self-jump, and a load, reached with a program counter outside 0 .. 8191:
\*   lw $1, 3($0); jr $1; j 2; .fill 8194
\*   lw $1, 3($0); sw $1, -1($0); jeq $0, $0, -4; .fill 24575   (24575 is j 8191)
\*   lw $1, 4($0); jr $1; lw $2, 0($0); j 3; .fill 8194
\*   lw $1, 3($0); sw $1, -1($0); j 8191; .fill 24579            (24579 is jal 3)
WrapPrograms ==
    {<<TwoReg(4, 0, 1, 3), ThreeReg(1, 0, 0, 8), JumpInstruction(2, 2), 8194>>,
     <<TwoReg(4, 0, 1, 3), TwoReg(5, 0, 1, 127), TwoReg(6, 0, 0, 124),
       JumpInstruction(2, 8191)>>,
     <<TwoReg(4, 0, 1, 4), ThreeReg(1, 0, 0, 8), TwoReg(4, 0, 2, 0),
       JumpInstruction(2, 3), 8194>>,
     <<TwoReg(4, 0, 1, 3), TwoReg(5, 0, 1, 127), JumpInstruction(2, 8191),
       JumpInstruction(3, 3)>>}

\* a comparison after a sum that passes 65535:
\*   lw $1, 4($0); addi $1, $1, 1; slti $3, $1, i; j 3; .fill 65535
FoldPrograms ==
    {<<TwoReg(4, 0, 1, 4), TwoReg(1, 1, 1, 1), TwoReg(7, 1, 3, i),
       JumpInstruction(2, 3), 65535>> : i \in {1, 127}}

\* a word stored over an instruction, then loaded, then fetched:
\*   lw $1, 4($0); sw $1, 3($0); lw $2, 3($0); nop; j 3
StorePrograms ==
    {<<TwoReg(4, 0, 1, 4), TwoReg(5, 0, 1, 3), TwoReg(4, 0, 2, 3), 0,
       JumpInstruction(2, 3)>>}

\* an opcode-0 word of every func the simulators name no operation for,
\* with and without a destination:
\*   lw $1, 3($0); .fill op; j 2; .fill 65535
UnnamedFuncs == {5, 6, 7} \cup (9 .. 15)

NopPrograms ==
    {<<TwoReg(4, 0, 1, 3), ThreeReg(1, 1, dst, f), JumpInstruction(2, 2), 65535>> :
        dst \in {0, 3}, f \in UnnamedFuncs}

Programs ==
    AluPrograms \cup GenPrograms \cup AccessPrograms \cup WarmPrograms
        \cup WrapPrograms \cup FoldPrograms \cup StorePrograms \cup NopPrograms

\* cmdline.cache: not given; one cache of one row, two ways, one-word blocks;
\* L1 of two one-way rows with two-word blocks over L2 of two two-way rows
CacheArgs ==
    {[given |-> FALSE, parts |-> <<>>],
     [given |-> TRUE, parts |-> <<2, 2, 1>>],
     [given |-> TRUE, parts |-> <<4, 1, 2, 4, 2, 1>>]}

Init ==
    \E words \in Programs, arg \in CacheArgs :
        /\ filename = Assembled(words)
        /\ stage = "run"
        /\ fault = ""
        /\ mem = Loaded(words)
        /\ pc = 0
        /\ registers = [r \in Regs |-> 0]
        /\ condition = TRUE
        /\ steps = 0
        /\ cache = arg
        /\ cstage = "run"
        /\ summary = ParseCache(arg).summary
        /\ cmem = Loaded(words)
        /\ cpc = 0
        /\ cregisters = [r \in Regs |-> 0]
        /\ ccondition = TRUE
        /\ cfault = ""
        /\ csteps = 0
        /\ L1cache = ParseCache(arg).L1
        /\ L2cache = ParseCache(arg).L2
        /\ log = <<>>

Next ==
    \/ SimOp0
    \/ SimAddi
    \/ SimJ
    \/ SimJal
    \/ SimLw
    \/ SimSw
    \/ SimJeq
    \/ SimSlti
    \/ CacheFetchError
    \/ CacheOp0
    \/ CacheAddi
    \/ CacheJ
    \/ CacheJal
    \/ CacheLw
    \/ CacheSw
    \/ CacheJeq
    \/ CacheSlti

Spec == Init /\ [][Next]_vars

----------------------------------------------------------------------------
(* The simulators from the first line of main(): any --cache argument, any   *)
(* file                                                                      *)

\* the data-driven programs on the words 1 and 65535
MainPrograms == {words \in AluPrograms : words[5] = 1 /\ words[6] = 65535}

\* --cache arguments: the three of CacheArgs; a size that blocksize *
\* associativity does not divide; sizes below blocksize * associativity, in
\* L1 and in L2; a zero associativity; one, four and seven fields
MainArgs ==
    CacheArgs \cup
    {[given |-> TRUE, parts |-> <<3, 2, 1>>],
     [given |-> TRUE, parts |-> <<1, 2, 1>>],
     [given |-> TRUE, parts |-> <<4, 1, 2, 1, 2, 1>>],
     [given |-> TRUE, parts |-> <<2, 0, 1>>],
     [given |-> TRUE, parts |-> <<2>>],
     [given |-> TRUE, parts |-> <<2, 2, 1, 4>>],
     [given |-> TRUE, parts |-> <<4, 1, 2, 4, 2, 1, 8>>]}

\* every program with every argument; every odd file with one valid
\* argument, the file of backward jumps with an argument of four fields
MainInputs ==
    ({Assembled(words) : words \in MainPrograms} \X MainArgs)
        \cup ({Named(name) : name \in (DOMAIN OddFiles) \ {"backward.bin"}}
                  \X {[given |-> TRUE, parts |-> <<2, 2, 1>>]})
        \cup {<<Named("backward.bin"), [given |-> TRUE, parts |-> <<2, 2, 1, 4>>]>>}

MainInit ==
    \E input \in MainInputs :
        /\ filename = input[1]
        /\ stage = "load"
        /\ fault = ""
        /\ mem = ZeroMem
        /\ pc = 0
        /\ registers = [r \in Regs |-> 0]
        /\ condition = TRUE
        /\ steps = 0
        /\ cache = input[2]
        /\ cstage = "args"
        /\ summary = <<>>
        /\ cmem = ZeroMem
        /\ cpc = 0
        /\ cregisters = [r \in Regs |-> 0]
        /\ ccondition = TRUE
        /\ cfault = ""
        /\ csteps = 0
        /\ L1cache = <<>>
        /\ L2cache = <<>>
        /\ log = <<>>

MainNext ==
    \/ SimLoad
    \/ SimFetchError
    \/ SimOp0
    \/ SimAddi
    \/ SimJ
    \/ SimJal
    \/ SimLw
    \/ SimSw
    \/ SimJeq
    \/ SimSlti
    \/ CacheParseArgs
    \/ CacheLoad
    \/ CacheFetchError
    \/ CacheOp0
    \/ CacheAddi
    \/ CacheJ
    \/ CacheJal
    \/ CacheLw
    \/ CacheSw
    \/ CacheJeq
    \/ CacheSlti

MainSpec == MainInit /\ [][MainNext]_vars

----------------------------------------------------------------------------
(* Vocabulary of the properties *)

\* the execution core / the cache simulator executes an instruction of
\* opcode op in this step
SimExec(op) == SimRunning /\ steps' = steps + 1 /\ Opcode(SimInstruction) = op
CacheExec(op) ==
    CacheRunning /\ csteps' = csteps + 1 /\ Opcode(CacheInstruction) = op

Word16 == 0 .. 65535
Addr13 == 0 .. 8191

\* the value of a 7-bit immediate read as a signed number
Signed7(imm7) == imm7 - (128 * (imm7 \div 64))

ZeroRegs == [r \in Regs |-> 0]

\* the file "movi $1, 5" followed by a self-jump at address 1
MoviProgram == Loaded(<<TwoReg(1, 0, 1, 5), JumpInstruction(2, 1)>>)

----------------------------------------------------------------------------
(* C1: in sim.py an add, sub or addi/movi with dst # 0 on register values in *)
(* 0..65535 stores (a+b) mod 65536, (a-b) mod 65536, (reg[src]+signext7(imm)) *)
(* mod 65536, a value in 0..65535; and the program "movi $1, 5; self-jump"   *)
(* halts with register 1 = 5, pc = 1 and every other register 0.             *)

C1_Step ==
    LET i == SimInstruction
        a == registers[FieldA(i)]
        b == registers[FieldB(i)]
    IN  /\ (SimExec(0) /\ Func(i) = 0 /\ FieldC(i) # 0 /\ a \in Word16 /\ b \in Word16)
               => /\ registers'[FieldC(i)] = (a + b) % 65536
                  /\ registers'[FieldC(i)] \in Word16
        /\ (SimExec(0) /\ Func(i) = 1 /\ FieldC(i) # 0 /\ a \in Word16 /\ b \in Word16)
               => /\ registers'[FieldC(i)] = (a - b) % 65536
                  /\ registers'[FieldC(i)] \in Word16
        /\ (SimExec(1) /\ FieldB(i) # 0 /\ a \in Word16)
               => /\ registers'[FieldB(i)] = (a + Signed7(Imm7(i))) % 65536
                  /\ registers'[FieldB(i)] \in Word16
        /\ (mem = MoviProgram /\ condition /\ ~condition')
               => /\ registers' = [ZeroRegs EXCEPT ![1] = 5]
                  /\ pc' = 1

C1_ModularArithmetic == [][C1_Step]_vars

\* an add of 65535 and 65535 has stored 65534, and a sub of 0 and 1 is possible
C1_Witness ==
    /\ MemGet(mem, 2) = ThreeReg(1, 2, 3, 0)
    /\ steps = 3
    /\ registers[1] = 65535
    /\ registers[2] = 65535
    /\ registers[3] = 65534

----------------------------------------------------------------------------
(* C2: the cache observer never alters architectural state or control flow:  *)
(* after the same number of loop iterations on the same file, simcache.py    *)
(* has the same pc (mod 8192), registers and memory as sim.py, has halted    *)
(* iff sim.py has, and has not failed.  Stated for the runs with a cache     *)
(* configured.                                                               *)

C2_SameArchitecturalState ==
    (cache.given /\ steps = csteps)
        => /\ cpc % 8192 = pc % 8192
           /\ cregisters = registers
           /\ cmem = mem
           /\ ccondition = condition
           /\ cfault = ""

----------------------------------------------------------------------------
(* C3: zero-register invariant: in both simulators register 0 holds 0 after  *)
(* every executed instruction, and an instruction with a destination field   *)
(* (opcode 0 other than jr, addi, lw, slti) whose destination is 0 changes   *)
(* no register and advances the pc by 1.                                     *)

\* the instruction has a destination field and it is 0
DstIsZero(i) ==
    \/ Opcode(i) = 0 /\ Func(i) # 8 /\ FieldC(i) = 0
    \/ Opcode(i) \in {1, 4, 7} /\ FieldB(i) = 0

C3_Step ==
    /\ registers'[0] = 0
    /\ cregisters'[0] = 0
    /\ (SimRunning /\ steps' = steps + 1 /\ DstIsZero(SimInstruction))
           => registers' = registers /\ pc' = SimPc + 1
    /\ (CacheRunning /\ csteps' = csteps + 1 /\ DstIsZero(CacheInstruction))
           => cregisters' = cregisters /\ cpc' = cpc + 1

----------------------------------------------------------------------------
(* C4: in sim.py, whenever an instruction is fetched the program counter is  *)
(* a value in 0..8191 (and that value is the one the instruction itself      *)
(* uses).                                                                    *)

C4_FetchPcInRange == (condition /\ steps < MaxSteps) => SimPc \in Addr13

----------------------------------------------------------------------------
(* C5: in both simulators the effective address of every lw (dst # 0) and   *)
(* every sw, used to index memory and reported to the cache, is              *)
(* (reg[addrReg] + signext7(imm)) mod 8192.                                  *)

WrappedAddr(base, imm7) == (base + Signed7(imm7)) % 8192

\* the lines this step prints
NewLines == SubSeq(log', Len(log) + 1, Len(log'))

C5_Step ==
    LET i == SimInstruction
        ea == WrappedAddr(registers[FieldA(i)], Imm7(i))
        ci == CacheInstruction
        cea == WrappedAddr(cregisters[FieldA(ci)], Imm7(ci))
    IN  /\ (SimExec(4) /\ FieldB(i) # 0)
               => /\ EffAddr(registers[FieldA(i)], Imm7(i)) = ea
                  /\ registers'[FieldB(i)] = MemGet(mem, ea)
        /\ SimExec(5)
               => /\ EffAddr(registers[FieldA(i)], Imm7(i)) = ea
                  /\ mem' = MemSet(mem, ea, registers[FieldB(i)])
        /\ (CacheExec(4) /\ FieldB(ci) # 0)
               => /\ EffAddr(cregisters[FieldA(ci)], Imm7(ci)) = cea
                  /\ cregisters'[FieldB(ci)] = MemGet(cmem, cea)
                  /\ \A k \in 1 .. Len(NewLines) : NewLines[k].addr = cea
        /\ CacheExec(5)
               => /\ EffAddr(cregisters[FieldA(ci)], Imm7(ci)) = cea
                  /\ cmem' = MemSet(cmem, cea, cregisters[FieldB(ci)])
                  /\ \A k \in 1 .. Len(NewLines) : NewLines[k].addr = cea

C5_EffectiveAddress == [][C5_Step]_vars

\* "lw $3, -64($1)" with $1 = 0 has been reported to the cache at 8128, and
\* sim.py has executed it too
C5_Witness ==
    /\ MemGet(cmem, 2) = TwoReg(4, 1, 3, 64)
    /\ cregisters[1] = 0
    /\ Len(log) = 3
    /\ log[3].addr = 8128
    /\ steps = 3

----------------------------------------------------------------------------
(* C6: halt: a j whose 13-bit target equals the address it was fetched from  *)
(* terminates the run at that step with pc, registers and memory unchanged;  *)
(* a j with another target sets pc to the target and does not terminate; the *)
(* file holding only "j 0" terminates on the first step with pc = 0.         *)

C6_Step ==
    /\ (SimExec(2) /\ Imm13(SimInstruction) = ListPos(SimPc))
           => /\ ~condition'
              /\ pc' = ListPos(SimPc)
              /\ registers' = registers
              /\ mem' = mem
    /\ (SimExec(2) /\ Imm13(SimInstruction) # ListPos(SimPc))
           => condition' /\ pc' = Imm13(SimInstruction)
    /\ (CacheExec(2) /\ Imm13(CacheInstruction) = ListPos(CacheFetchIndex))
           => /\ ~ccondition'
              /\ cpc' % 8192 = ListPos(CacheFetchIndex)
              /\ cregisters' = cregisters
              /\ cmem' = cmem
    /\ (CacheExec(2) /\ Imm13(CacheInstruction) # ListPos(CacheFetchIndex))
           => ccondition' /\ cpc' = Imm13(CacheInstruction)
    /\ (mem = Loaded(<<JumpInstruction(2, 0)>>) /\ steps = 0 /\ steps' = 1)
           => ~condition' /\ pc' = 0 /\ registers' = ZeroRegs /\ mem' = mem

C6_Halt == [][C6_Step]_vars

----------------------------------------------------------------------------
(* Cache levels and their access histories *)

Levels ==
    IF ~cache.given THEN {}
    ELSE IF Len(parts) = 6 THEN {"L1", "L2"}
    ELSE {"L1"}

LevelRows(l) == IF l = "L1" THEN L1cache ELSE L2cache
LevelAssoc(l) == IF l = "L1" THEN L1assoc ELSE L2assoc
LevelBlock(l) == IF l = "L1" THEN L1blocksize ELSE L2blocksize
LevelNumRows(l) == IF l = "L1" THEN L1num_rows ELSE L2num_rows

RowOf(l, addr) == (addr \div LevelBlock(l)) % LevelNumRows(l)
TagOf(l, addr) == (addr \div LevelBlock(l)) \div LevelNumRows(l)

\* the tags accessed in row r of level l, oldest first, read off the lines lg
History(lg, l, r) ==
    LET Mine(e) == e.cache_name = l /\ e.row = r
        lines == SelectSeq(lg, Mine)
    IN  [k \in 1 .. Len(lines) |-> TagOf(l, lines[k].addr)]

Distinct(h) == \A i, j \in 1 .. Len(h) : i # j => h[i] # h[j]

\* the last n elements of h (all of h when it is shorter)
LastN(h, n) == SubSeq(h, Max2(1, Len(h) - n + 1), Len(h))

----------------------------------------------------------------------------
(* C7: in every reachable state of the cache simulator each row of each      *)
(* configured level holds at most that level's associativity many tags.      *)

C7_TagSetBounded ==
    \A l \in Levels : \A r \in DOMAIN LevelRows(l) :
        Len(LevelRows(l)[r]) <= LevelAssoc(l)

\* a two-way row is full after three accesses to three different words
C7_Witness ==
    /\ cache.given /\ parts = <<2, 2, 1>>
    /\ Len(log) = 3
    /\ Distinct([k \in 1 .. 3 |-> log[k].addr])
    /\ Len(L1cache[0]) = 2

----------------------------------------------------------------------------
(* C8: cache recency law: while the accesses to a row (empty at the start)   *)
(* are to pairwise distinct tags, the row holds the last N accessed tags in  *)
(* access order, least recently used at the head; so eviction order is       *)
(* insertion order, and the N+1st access evicts the first tag inserted.      *)

C8_FifoWithoutHits ==
    \A l \in Levels : \A r \in DOMAIN LevelRows(l) :
        LET h == History(log, l, r)
        IN  Distinct(h) => LevelRows(l)[r] = LastN(h, LevelAssoc(l))

\* N = 2: tags 0, 2, 4 were accessed in that order; 0 is gone, 2 is the head
C8_Witness ==
    /\ cache.given /\ parts = <<2, 2, 1>>
    /\ Len(log) = 3
    /\ log[1].addr = 0 /\ log[2].addr = 2 /\ log[3].addr = 4
    /\ L1cache[0] = <<2, 4>>

----------------------------------------------------------------------------
(* C9: hit-promotes-recency.  An access that finds its tag resident makes    *)
(* it the most recently used entry and changes neither which tags are        *)
(* resident nor the order of the others.  As claimed: the tag is then not    *)
(* evicted (unless accessed again) until every other tag resident at the     *)
(* time of the hit has been evicted.  As amended: ... has been evicted or    *)
(* accessed again.                                                           *)

Elems(row) == {row[k] : k \in 1 .. Len(row)}

\* the rows a history h makes of an empty row: element n + 1 is the row
\* after the first n accesses
RECURSIVE RowsOf(_, _, _)
RowsOf(h, n, assoc) ==
    IF n = 0 THEN << <<>> >>
    ELSE LET before == RowsOf(h, n - 1, assoc)
             one == [x \in {0} |-> before[n]]
         IN  Append(before, Lookup(one, 0, assoc, h[n])[0])

\* with rows = RowsOf(h, Len(h), assoc): access i of h was a hit, its tag was
\* not accessed again, and the last access of h evicted it
HitThenEvicted(h, rows, i) ==
    /\ h[i] \in Elems(rows[i])
    /\ \A j \in (i + 1) .. Len(h) : h[j] # h[i]
    /\ h[i] \in Elems(rows[Len(h)])
    /\ h[i] \notin Elems(rows[Len(h) + 1])

EvictedSince(h, rows, i, u) ==
    \E j \in (i + 1) .. (Len(h) - 1) : u \notin Elems(rows[j + 1])

AccessedSince(h, i, u) == \E j \in (i + 1) .. (Len(h) - 1) : h[j] = u

\* when the last access to a row found its tag resident, the row is the row
\* before it with that tag moved to the tail, the others in their order
C9_HitMovesToTail ==
    \A l \in Levels : \A r \in DOMAIN LevelRows(l) :
        LET h == History(log, l, r)
            rows == RowsOf(h, Len(h), LevelAssoc(l))
            t == h[Len(h)]
            Other(x) == x # t
        IN  (Len(h) >= 1 /\ t \in Elems(rows[Len(h)]))
                => /\ LevelRows(l)[r] = Append(SelectSeq(rows[Len(h)], Other), t)
                   /\ Elems(LevelRows(l)[r]) = Elems(rows[Len(h)])

\* the rows are what their histories make them
RowsFollowHistory ==
    \A l \in Levels : \A r \in DOMAIN LevelRows(l) :
        LET h == History(log, l, r)
            rows == RowsOf(h, Len(h), LevelAssoc(l))
        IN  LevelRows(l)[r] = rows[Len(h) + 1]

C9_ClaimedOrder ==
    \A l \in Levels : \A r \in DOMAIN LevelRows(l) :
        LET h == History(log, l, r)
            rows == RowsOf(h, Len(h), LevelAssoc(l))
        IN  \A i \in 1 .. (Len(h) - 1) :
                HitThenEvicted(h, rows, i)
                    => \A u \in Elems(rows[i + 1]) \ {h[i]} :
                           EvictedSince(h, rows, i, u)

C9_AmendedOrder ==
    \A l \in Levels : \A r \in DOMAIN LevelRows(l) :
        LET h == History(log, l, r)
            rows == RowsOf(h, Len(h), LevelAssoc(l))
        IN  \A i \in 1 .. (Len(h) - 1) :
                HitThenEvicted(h, rows, i)
                    => \A u \in Elems(rows[i + 1]) \ {h[i]} :
                           EvictedSince(h, rows, i, u) \/ AccessedSince(h, i, u)

\* the claim as stated
C9_HitProtectsTag == RowsFollowHistory /\ C9_HitMovesToTail /\ C9_ClaimedOrder

\* the claim as amended
C9_HitPromotesRecency == RowsFollowHistory /\ C9_HitMovesToTail /\ C9_AmendedOrder

\* tags 0, 2, then hits on 0 and on 2, then 4: the hit tag 0 is evicted while
\* 2, resident at the time of the hit and accessed since, stays
C9_Witness ==
    /\ cache.given /\ parts = <<2, 2, 1>>
    /\ Len(log) = 5
    /\ [k \in 1 .. 5 |-> log[k].addr] = <<0, 2, 0, 2, 4>>
    /\ log[3].status = "HIT"
    /\ L1cache[0] = <<2, 4>>

----------------------------------------------------------------------------
(* C10: inclusion short-circuit.  With two levels, a load that hits in L1    *)
(* prints exactly one line (L1 HIT) and leaves L2 as it is; a load that      *)
(* misses in L1 prints one L1 MISS line, then one L2 line (HIT or MISS), and *)
(* updates L2.  A store prints exactly one line per configured level, L1     *)
(* first, and updates every configured level whether or not L1 holds the tag.*)

Last(row) == row[Len(row)]

C10_Step ==
    LET ci == CacheInstruction
        ea == WrappedAddr(cregisters[FieldA(ci)], Imm7(ci))
        twoLevelLoad ==
            CacheExec(4) /\ FieldB(ci) # 0 /\ cache.given /\ Len(parts) = 6
        inL1 == TagOf("L1", ea) \in Elems(L1cache[RowOf("L1", ea)])
        inL2 == TagOf("L2", ea) \in Elems(L2cache[RowOf("L2", ea)])
    IN  /\ (twoLevelLoad /\ inL1)
               => /\ Len(NewLines) = 1
                  /\ NewLines[1].cache_name = "L1"
                  /\ NewLines[1].status = "HIT"
                  /\ L2cache' = L2cache
        /\ (twoLevelLoad /\ ~inL1)
               => /\ Len(NewLines) = 2
                  /\ NewLines[1].cache_name = "L1"
                  /\ NewLines[1].status = "MISS"
                  /\ NewLines[2].cache_name = "L2"
                  /\ NewLines[2].status = (IF inL2 THEN "HIT" ELSE "MISS")
                  /\ Last(L2cache'[RowOf("L2", ea)]) = TagOf("L2", ea)
        /\ CacheExec(5)
               => /\ Len(NewLines) = Cardinality(Levels)
                  /\ \A k \in 1 .. Len(NewLines) :
                         /\ NewLines[k].status = "SW"
                         /\ NewLines[k].cache_name = (IF k = 1 THEN "L1" ELSE "L2")
                  /\ \A l \in Levels :
                         Last(LevelRows(l)'[RowOf(l, ea)]) = TagOf(l, ea)

C10_InclusionShortCircuit == [][C10_Step]_vars

\* with two levels: a load missed in both, the next load hit in L1 and printed
\* nothing for L2
C10_Witness ==
    /\ cache.given /\ Len(parts) = 6
    /\ Len(log) = 3
    /\ log[1].status = "MISS" /\ log[2].cache_name = "L2"
    /\ log[3].cache_name = "L1" /\ log[3].status = "HIT"

----------------------------------------------------------------------------
(* C11: a lw whose destination field is 0 is elided: in simcache.py it       *)
(* prints no trace line and leaves every cache level, every register, memory *)
(* and the error state as they are, under every --cache argument, and only   *)
(* the pc advances by 1; in sim.py it leaves registers and memory as they    *)
(* are and the pc advances by 1.                                             *)

C11_Step ==
    /\ (CacheExec(4) /\ FieldB(CacheInstruction) = 0)
           => /\ log' = log
              /\ L1cache' = L1cache
              /\ L2cache' = L2cache
              /\ cregisters' = cregisters
              /\ cmem' = cmem
              /\ cfault' = ""
              /\ ccondition'
              /\ cpc' = cpc + 1
    /\ (SimExec(4) /\ FieldB(SimInstruction) = 0)
           => /\ registers' = registers
              /\ mem' = mem
              /\ condition'
              /\ pc' = SimPc + 1

C11_LoadToZeroElided == [][C11_Step]_vars

\* "lw $0, 0($1)" was executed by both simulators after two reported loads,
\* with a cache configured: still two trace lines
C11_Witness ==
    /\ MemGet(cmem, 2) = TwoReg(4, 1, 0, 0)
    /\ cache.given
    /\ csteps = 3 /\ cpc = 3
    /\ steps = 3 /\ pc = 3
    /\ Len(log) = 2

----------------------------------------------------------------------------
(* C12: no cache is a valid configuration: when --cache is absent the cache  *)
(* simulator executes every program, lw with dst # 0 and sw included,        *)
(* without raising an exception, and prints no trace line.                   *)

C12_NoCacheIsValid == (~cache.given) => (cfault = "" /\ log = <<>>)

----------------------------------------------------------------------------
(* C13: a --cache argument of three or six fields in which a size is not     *)
(* divisible by blocksize * associativity (a size below the product, giving  *)
(* zero rows, included) is rejected before anything else happens: the cache  *)
(* simulator does not get past its argument handling, so it loads no file,   *)
(* prints no summary or trace line and executes no instruction.              *)

Indivisible(size, assoc, blocksize) ==
    blocksize * assoc > 0 /\ size % (blocksize * assoc) # 0

InvalidGeometry ==
    /\ cache.given
    /\ \/ Len(parts) = 3 /\ Indivisible(L1size, L1assoc, L1blocksize)
       \/ Len(parts) = 6 /\ \/ Indivisible(L1size, L1assoc, L1blocksize)
                            \/ Indivisible(L2size, L2assoc, L2blocksize)

C13_InvalidGeometryRejected ==
    InvalidGeometry
        => /\ cstage = "args"
           /\ summary = <<>>
           /\ log = <<>>
           /\ csteps = 0

----------------------------------------------------------------------------
(* C14: a --cache argument is accepted only with exactly 3 or exactly 6      *)
(* fields.  With any other field count the cache simulator raises the        *)
(* configuration error in its argument handling: it never gets to loading    *)
(* the file, executes no instruction and prints no summary or trace line.    *)

C14_FieldCount ==
    (cache.given /\ Len(parts) \notin {3, 6})
        => /\ cstage = "args"
           /\ cfault \in {"", "Exception: Invalid cache config"}
           /\ cmem = ZeroMem
           /\ csteps = 0
           /\ summary = <<>>
           /\ log = <<>>

\* four fields: the configuration error was raised, nothing was loaded or
\* printed, while sim.py has loaded the same file and is running
C14_Witness ==
    /\ cache.given /\ Len(parts) = 4
    /\ cfault = "Exception: Invalid cache config"
    /\ cmem = ZeroMem /\ summary = <<>> /\ log = <<>>
    /\ stage = "run" /\ steps = 2

----------------------------------------------------------------------------
(* C15: loading takes the lines in order and fails at the first line that    *)
(* does not match "ram[<address>] = 16'b<bits>;", whose address is not its   *)
(* position in the file, or whose address is 8192 or more; if no line fails, *)
(* memory[i] is the value of line i for every line, every other word is 0,   *)
(* and every memory word is in 0..65535.  Stated of both simulators, right   *)
(* after the load.                                                           *)

\* line k of the lines fails
FailingLine(lines, k) ==
    \/ ~lines[k].ram
    \/ ~IsBinary(lines[k].bits)
    \/ lines[k].addr # k - 1
    \/ lines[k].addr >= MEM_SIZE

\* what the claim says of a load of the file that ended with exception f and
\* memory m
LoadedAsClaimed(f, m) ==
    LET lines == Open(filename)
    IN  IF \E k \in 1 .. Len(lines) : FailingLine(lines, k)
        THEN f # ""
        ELSE /\ f = ""
             /\ \A i \in 0 .. (Len(lines) - 1) :
                    MemGet(m, i) = BinValue(lines[i + 1].bits)
             /\ \A i \in DOMAIN m : i < Len(lines) /\ m[i] \in Word16

C15_Loading ==
    /\ ((stage = "run" /\ steps = 0) \/ (stage = "load" /\ fault # ""))
           => LoadedAsClaimed(fault, mem)
    /\ ((cstage = "run" /\ csteps = 0) \/ (cstage = "load" /\ cfault # ""))
           => LoadedAsClaimed(cfault, cmem)

----------------------------------------------------------------------------
(* C16: there is no fault path inside a run of the execution core: once the  *)
(* file is loaded, sim.py raises no exception, whatever words the memory     *)
(* holds; every fetch of a running simulator finds its instruction.          *)

C16_NoFaultInRun ==
    stage = "run" => (fault = "" /\ (condition => ListIndexOk(SimPc)))

----------------------------------------------------------------------------
(* C17: trace records are emitted in program order and carry the access's    *)
(* own data: a step only appends to the trace; only a lw with dst # 0 or a   *)
(* sw appends, the L1 record before the L2 record; each record's pc is the   *)
(* address in 0..8191 the instruction was fetched from (also after a jr to a *)
(* value above 8191, a pc running past 8191 or a backward jeq), its addr is  *)
(* the effective address and its row is (addr div blocksize) mod num_rows of *)
(* its level.                                                                *)

C17_Step ==
    LET ci == CacheInstruction
        ea == WrappedAddr(cregisters[FieldA(ci)], Imm7(ci))
        access == (CacheExec(4) /\ FieldB(ci) # 0) \/ CacheExec(5)
    IN  /\ Len(log') >= Len(log)
        /\ SubSeq(log', 1, Len(log)) = log
        /\ (~access) => log' = log
        /\ access =>
               /\ Len(NewLines) <= 2
               /\ Len(NewLines) >= 1 => NewLines[1].cache_name = "L1"
               /\ Len(NewLines) = 2 => NewLines[2].cache_name = "L2"
               /\ \A k \in 1 .. Len(NewLines) :
                      /\ NewLines[k].pc \in Addr13
                      /\ NewLines[k].pc = ListPos(CacheFetchIndex)
                      /\ NewLines[k].addr = ea
                      /\ NewLines[k].row = RowOf(NewLines[k].cache_name, ea)

C17_TraceRecords == [][C17_Step]_vars

----------------------------------------------------------------------------
(* C18: a store runs the lookup, promotion and eviction of a load in every   *)
(* level it touches: after a sw the L1 rows are what a lw of the same        *)
(* address would have made them, and with two levels the L2 rows are what a  *)
(* lw of that address that misses in L1 would have made them; every line it  *)
(* prints has status SW, whether or not the tag was resident.                *)

C18_Step ==
    LET ci == CacheInstruction
        ea == WrappedAddr(cregisters[FieldA(ci)], Imm7(ci))
        inL1 == TagOf("L1", ea) \in Elems(L1cache[RowOf("L1", ea)])
    IN  (CacheExec(5) /\ cache.given)
            => /\ Len(parts) = 3 => L1cache' = LoadOne(cpc, ea).L1
               /\ Len(parts) = 6 =>
                      /\ L1cache' = LoadTwo(cpc, ea).L1
                      /\ L2cache' = IF inL1
                                    THEN Lookup(L2cache, RowOf("L2", ea), L2assoc,
                                                TagOf("L2", ea))
                                    ELSE LoadTwo(cpc, ea).L2
               /\ Len(NewLines) = Cardinality(Levels)
               /\ \A k \in 1 .. Len(NewLines) : NewLines[k].status = "SW"

C18_StoreLikeLoad == [][C18_Step]_vars

\* one two-way row: sw 3, lw 0, sw 3: the second store found tag 3 resident
\* at the head and moved it behind tag 0
C18_Witness ==
    /\ cache.given /\ parts = <<2, 2, 1>>
    /\ Len(log) = 3
    /\ log[1].status = "SW" /\ log[1].addr = 3
    /\ log[2].status = "MISS" /\ log[2].addr = 0
    /\ log[3].status = "SW" /\ log[3].addr = 3
    /\ L1cache[0] = <<0, 3>>

----------------------------------------------------------------------------
(* C19: in both simulators an slti with dst # 0 compares unsigned: the 7-bit *)
(* immediate stands for imm7 when imm7 <= 63 and for 65408 + imm7 otherwise, *)
(* reg[dst] becomes 1 when the 16-bit value of reg[src] is below it and 0    *)
(* otherwise, pc advances by 1 and no other register and no memory word      *)
(* changes.                                                                  *)

\* the 16-bit unsigned value of a 7-bit immediate
UnsignedImm(imm7) == IF imm7 <= 63 THEN imm7 ELSE 65408 + imm7

\* the register file after an unsigned comparison of reg[src] with imm7
Compared(regs, src, dst, imm7) ==
    [regs EXCEPT ![dst] = IF (regs[src] % 65536) < UnsignedImm(imm7) THEN 1 ELSE 0]

C19_Step ==
    LET si == SimInstruction
        ci == CacheInstruction
    IN  /\ (SimExec(7) /\ FieldB(si) # 0)
            => /\ registers' = Compared(registers, FieldA(si), FieldB(si), Imm7(si))
               /\ pc' % 8192 = (pc + 1) % 8192
               /\ mem' = mem
        /\ (CacheExec(7) /\ FieldB(ci) # 0)
            => /\ cregisters' = Compared(cregisters, FieldA(ci), FieldB(ci), Imm7(ci))
               /\ cpc' % 8192 = (cpc + 1) % 8192
               /\ cmem' = cmem

C19_UnsignedCompare == [][C19_Step]_vars

----------------------------------------------------------------------------
(* C20: in both simulators an opcode-0 word with func = 8 is a jump through  *)
(* a register whatever its dst field: the next instruction is fetched from   *)
(* address reg[srcA] mod 8192, and no register and no memory word changes.   *)

C20_Step ==
    LET si == SimInstruction
        ci == CacheInstruction
    IN  /\ (SimExec(0) /\ BitAnd(si, 15) = 8)
            => /\ ListIndexOk(SimPc')
               /\ ListPos(SimPc') = registers[FieldA(si)] % 8192
               /\ registers' = registers
               /\ mem' = mem
        /\ (CacheExec(0) /\ BitAnd(ci, 15) = 8)
            => /\ ListIndexOk(CacheFetchIndex')
               /\ ListPos(CacheFetchIndex') = cregisters[FieldA(ci)] % 8192
               /\ cregisters' = cregisters
               /\ cmem' = cmem

C20_RegisterJump == [][C20_Step]_vars

----------------------------------------------------------------------------
(* C21: in both simulators a jal sets register 7 to (pc + 1) mod 8192, pc    *)
(* being the address of the jal, and continues at its 13-bit target: the     *)
(* link is in 0..8191, a jal at address 8191 links 0, no other register and  *)
(* no memory word changes, and the run goes on even when the target is the   *)
(* jal's own address.                                                        *)

C21_Step ==
    LET si == SimInstruction
        ci == CacheInstruction
    IN  /\ SimExec(3)
            => /\ registers' =
                      [registers EXCEPT ![7] = (ListPos(SimPc) + 1) % 8192]
               /\ registers'[7] \in Addr13
               /\ pc' = Imm13(si)
               /\ mem' = mem
               /\ condition' /\ fault' = ""
        /\ CacheExec(3)
            => /\ cregisters' =
                      [cregisters EXCEPT ![7] = (ListPos(CacheFetchIndex) + 1) % 8192]
               /\ cregisters'[7] \in Addr13
               /\ cpc' = Imm13(ci)
               /\ cmem' = cmem
               /\ ccondition' /\ cfault' = ""

C21_Link == [][C21_Step]_vars

\* the jal 3 stored at address 8191 has run in both simulators and linked 0,
\* and in sim.py the jal 3 at address 3 has then run and linked 4
C21_Witness ==
    /\ MemGet(mem, 8191) = JumpInstruction(3, 3)
    /\ MemGet(mem, 3) = JumpInstruction(3, 3)
    /\ steps = 5 /\ pc = 3 /\ registers[7] = 4 /\ condition
    /\ csteps = 4 /\ cpc = 3 /\ cregisters[7] = 0

----------------------------------------------------------------------------
(* C22: in sim.py a jeq changes only pc: when reg[regA] = reg[regB] the next *)
(* instruction is fetched from (pc + 1 + signext7(relImm)) mod 8192, pc      *)
(* being the address of the jeq, and otherwise from (pc + 1) mod 8192;       *)
(* registers and memory are unchanged and the run goes on, also when the     *)
(* jeq jumps to itself or backward past address 0.                           *)

C22_Step ==
    LET si == SimInstruction
        taken == registers[FieldA(si)] = registers[FieldB(si)]
        relImm == IF taken THEN Signed7(Imm7(si)) ELSE 0
    IN  SimExec(6)
            => /\ ListIndexOk(SimPc')
               /\ ListPos(SimPc') = (ListPos(SimPc) + 1 + relImm) % 8192
               /\ registers' = registers
               /\ mem' = mem
               /\ condition' /\ fault' = ""

C22_JeqChangesOnlyPc == [][C22_Step]_vars

----------------------------------------------------------------------------
(* C23: in sim.py a sw writes unconditionally and changes nothing else:      *)
(* after it memory[effAddr] = reg[srcReg], also when srcReg is 0, every      *)
(* other word and every register is unchanged and pc has advanced by 1.      *)
(* Nothing but a sw changes memory, and instructions and loads read that     *)
(* same memory: a step executes the word memory holds at the fetch address,  *)
(* and a lw returns the word memory holds at its effective address.          *)

\* the word memory holds at the address sim.py fetches from
Fetched == MemGet(mem, IF pc > 8191 THEN pc % 8192 ELSE pc)

\* sim.py completes one loop iteration in this step
SimIteration == steps' = steps + 1 /\ fault' = "" /\ fault = ""

C23_Step ==
    LET ea == WrappedAddr(registers[FieldA(Fetched)], Imm7(Fetched))
        src == FieldB(Fetched)
    IN  /\ (SimIteration /\ Opcode(Fetched) = 5)
            => /\ MemGet(mem', ea) = registers[src]
               /\ \A a \in ((DOMAIN mem) \cup (DOMAIN mem')) \ {ea} :
                      MemGet(mem', a) = MemGet(mem, a)
               /\ registers' = registers
               /\ pc' % 8192 = (pc + 1) % 8192
               /\ condition'
        /\ (mem' # mem) => (SimIteration /\ Opcode(Fetched) = 5)
        /\ (SimIteration /\ Opcode(Fetched) = 4 /\ src # 0)
            => registers'[src] = MemGet(mem, ea)
        /\ (SimIteration /\ Opcode(Fetched) = 3)
            => pc' = Imm13(Fetched)
        /\ (SimIteration /\ Opcode(Fetched) = 2)
            => (pc' = Imm13(Fetched) \/ ~condition')
        /\ (SimIteration /\ Opcode(Fetched) \in {1, 4, 5, 7})
            => pc' % 8192 = (pc + 1) % 8192

C23_StoreWrites == [][C23_Step]_vars

\* lw $1, 4($0); sw $1, 3($0); lw $2, 3($0); nop; j 3: the j 3 stored over
\* the nop at address 3 was loaded into register 2 and then fetched, and
\* halted the run
C23_Witness ==
    /\ filename = Assembled(<<TwoReg(4, 0, 1, 4), TwoReg(5, 0, 1, 3),
                              TwoReg(4, 0, 2, 3), 0, JumpInstruction(2, 3)>>)
    /\ MemGet(mem, 3) = JumpInstruction(2, 3)
    /\ registers[2] = JumpInstruction(2, 3)
    /\ steps = 4 /\ pc = 3 /\ ~condition

----------------------------------------------------------------------------
(* C24: in every reachable state of the cache simulator the tags in any one  *)
(* row of any level are pairwise distinct, and a step changes no row of a    *)
(* level other than the row its effective address maps to in that level (a   *)
(* step of the loop that is no access changes no row at all).                *)

RowsDistinct ==
    /\ \A r \in DOMAIN L1cache : Distinct(L1cache[r])
    /\ \A r \in DOMAIN L2cache : Distinct(L2cache[r])

C24_Step ==
    LET ci == CacheInstruction
        ea == WrappedAddr(cregisters[FieldA(ci)], Imm7(ci))
        access == (CacheExec(4) /\ FieldB(ci) # 0) \/ CacheExec(5)
    IN  /\ RowsDistinct /\ RowsDistinct'
        /\ (cstage = "run" /\ ~access) => (L1cache' = L1cache /\ L2cache' = L2cache)
        /\ access => (DOMAIN L1cache' = DOMAIN L1cache /\ DOMAIN L2cache' = DOMAIN L2cache)
        /\ (access /\ cfault' = "")
            => /\ \A r \in (DOMAIN L1cache) \ {RowOf("L1", ea)} :
                      L1cache'[r] = L1cache[r]
               /\ \A r \in DOMAIN L2cache :
                      ("L2" \notin Levels \/ r # RowOf("L2", ea))
                          => L2cache'[r] = L2cache[r]

C24_RowsDistinctAndLocal == [][C24_Step]_vars

\* two levels: L2 row 0 holds two tags after an L1 hit, both L2 rows and
\* both L1 rows are in use
C24_Witness ==
    /\ cache.given /\ parts = <<4, 1, 2, 4, 2, 1>>
    /\ Len(L2cache[0]) = 2 /\ L2cache[1] # <<>>
    /\ L1cache[0] # <<>> /\ L1cache[1] # <<>>
    /\ \E k \in 1 .. Len(log) : log[k].status = "HIT"

----------------------------------------------------------------------------
(* C25: in both simulators an opcode-0 word whose func is none of 0, 1, 2,   *)
(* 3, 4, 8 does nothing for every dst: pc advances by 1, all registers and   *)
(* all memory are unchanged, and the run neither halts nor fails.            *)

NamedFuncs == {0, 1, 2, 3, 4, 8}

C25_Step ==
    LET si == SimInstruction
        ci == CacheInstruction
    IN  /\ (SimExec(0) /\ (si % 16) \notin NamedFuncs)
            => /\ registers' = registers
               /\ mem' = mem
               /\ pc' % 8192 = (pc + 1) % 8192
               /\ condition' /\ fault' = ""
        /\ (CacheExec(0) /\ (ci % 16) \notin NamedFuncs)
            => /\ cregisters' = cregisters
               /\ cmem' = cmem
               /\ cpc' % 8192 = (cpc + 1) % 8192
               /\ ccondition' /\ cfault' = ""
               /\ log' = log

C25_UnnamedFuncIsNop == [][C25_Step]_vars

\* both simulators have executed the word with func 10 and dst 3 on
\* register 1 = 65535, and register 3 is still 0
C25_Witness ==
    /\ filename = Assembled(<<TwoReg(4, 0, 1, 3), ThreeReg(1, 1, 3, 10),
                              JumpInstruction(2, 2), 65535>>)
    /\ steps = 2 /\ pc = 2 /\ registers[1] = 65535 /\ registers[3] = 0
    /\ csteps = 2 /\ cpc = 2 /\ cregisters[1] = 65535 /\ cregisters[3] = 0

====
